---------------------------- MODULE Spec2Model ----------------------------
(* A model of output/tmp/voice_recorder.py: the VoiceRecorder class, its   *)
(* constructor (with validate_path and validate_format) and start_record,  *)
(* together with the parts of the environment they act on: the directory   *)
(* tree, the audio files written, the console and the wall clock.          *)
(*                                                                         *)
(* Strings that the code inspects (the format, the output path) are        *)
(* sequences of one-character strings. Directory names are one character   *)
(* long, so a path such as "n/m/" is <<"n", "/", "m", "/">>.               *)
EXTENDS Integers, Sequences, FiniteSets, TLC

VARIABLES
    args,          \* the arguments the caller passes to VoiceRecorder(...)
    pc,            \* where the program is
    duration,      \* self.duration
    output_path,   \* self.output_path
    file_format,   \* self.file_format
    dirs,          \* the directory tree: path segments -> kind of node
    files,         \* the audio files on disk
    log,           \* what has been printed
    clock,         \* time.time() in whole seconds
    ctorErr,       \* the exception __init__ raised, or "none"
    dirErr,        \* the outcome of os.makedirs in validate_path
    calls,         \* start_record invocations so far
    callTime,      \* the clock when the current invocation was entered
    captureDone,   \* the clock when sd.wait() returned
    request,       \* what sd.rec was asked for
    recording,     \* the buffer sd.rec returned
    encoded,       \* what sf.write was handed
    recCalls,      \* sd.rec calls of the current invocation
    writeCalls,    \* sf.write calls of the current invocation
    ret,           \* the value start_record returned
    raised,        \* the exception start_record left to its caller
    primErr,       \* the exception the failing primitive raised
    raisedAt,      \* which primitive raised it
    filesAtCall    \* the audio files on disk when the invocation was entered

vars == <<args, pc, duration, output_path, file_format, dirs, files, log, clock,
          ctorErr, dirErr, calls, callTime, captureDone, request, recording,
          encoded, recCalls, writeCalls, ret, raised, primErr, raisedAt,
          filesAtCall>>

-----------------------------------------------------------------------------
(* Bounds of the model. *)

MaxClock == 5
MaxCalls == 2

-----------------------------------------------------------------------------
(* Class attributes. *)

wav  == <<"w", "a", "v">>
mp3  == <<"m", "p", "3">>
flac == <<"f", "l", "a", "c">>

SUPPORTED_FORMATS == {wav, mp3, flac}
DEFAULT_FORMAT == wav
SAMPLE_RATE == 44100
CHANNELS == 1

-----------------------------------------------------------------------------
(* str.lower() on the characters the model uses. *)

ToLower(c) ==
    CASE c = "W" -> "w" [] c = "A" -> "a" [] c = "V" -> "v"
      [] c = "M" -> "m" [] c = "P" -> "p" [] c = "F" -> "f"
      [] c = "L" -> "l" [] c = "C" -> "c" [] c = "O" -> "o"
      [] c = "G" -> "g"
      [] OTHER -> c

Lower(s) == IF s = <<>> THEN <<>> ELSE [i \in 1..Len(s) |-> ToLower(s[i])]

-----------------------------------------------------------------------------
(* The directory tree. A node is addressed by its segments; the current    *)
(* directory is <<>>. "dir" is a directory the process may write into,     *)
(* "rodir" one it may not, "file" a regular file, "dangling" a symbolic    *)
(* link whose target does not exist.                                       *)

Segs(path) == SelectSeq(path, LAMBDA c : c # "/")

Front(s) == SubSeq(s, 1, Len(s) - 1)

Last(s) == s[Len(s)]

Prefix(s, k) == SubSeq(s, 1, k)

NodeKind(d, segs) == IF segs \in DOMAIN d THEN d[segs] ELSE "none"

\* os.path.exists follows symbolic links.
Exists(d, segs) == NodeKind(d, segs) \in {"dir", "rodir", "file"}

IsDir(d, segs) == NodeKind(d, segs) \in {"dir", "rodir"}

\* The errno of resolving the directories a path leads through, "none" when
\* every one of them is a directory.
WalkErr(d, segs) ==
    LET bad == {k \in 1..(Len(segs) - 1) : ~IsDir(d, Prefix(segs, k))}
    IN  IF bad = {} THEN "none"
        ELSE LET k == CHOOSE i \in bad : \A j \in bad : i <= j
             IN  IF NodeKind(d, Prefix(segs, k)) = "file"
                 THEN "NotADirectoryError" ELSE "FileNotFoundError"

\* os.mkdir(name): the exception it raises ("none" when it creates the
\* directory) and the tree afterwards.
Mkdir(d, segs) ==
    LET e == IF segs = <<>> THEN "FileNotFoundError"
             ELSE IF WalkErr(d, segs) # "none" THEN WalkErr(d, segs)
             ELSE IF segs \in DOMAIN d THEN "FileExistsError"
             ELSE IF NodeKind(d, Front(segs)) = "rodir" THEN "PermissionError"
             ELSE "none"
    IN  [err |-> e,
         dirs |-> IF e = "none" THEN [p \in DOMAIN d \cup {segs} |->
                                        IF p = segs THEN "dir" ELSE d[p]]
                  ELSE d]

\* os.makedirs(name, exist_ok=True). The empty path has no segments and is
\* no directory: os.mkdir("") fails and os.path.isdir("") is false.
RECURSIVE MakeDirs(_, _)
MakeDirs(d, segs) ==
    LET head == IF segs = <<>> THEN <<>> ELSE Front(segs)
        up   == IF head # <<>> /\ ~Exists(d, head)
                THEN MakeDirs(d, head)
                ELSE [err |-> "none", dirs |-> d]
    IN  IF up.err \notin {"none", "FileExistsError"}
        THEN up
        ELSE LET m == Mkdir(up.dirs, segs)
             IN  IF m.err # "none" /\ segs # <<>> /\ IsDir(up.dirs, segs)
                 THEN [err |-> "none", dirs |-> up.dirs]
                 ELSE m


-----------------------------------------------------------------------------
(* The constructor. *)

\* validate_path with an except clause that names FileNotFoundError alone.
ValidatePathCatchOne(d, path) ==
    LET r == MakeDirs(d, Segs(path))
    IN  IF r.err = "FileNotFoundError"
        THEN [dirs |-> r.dirs, made |-> r.err, raised |-> "none",
              log |-> <<"Error occurred while creating the directory:">>]
        ELSE [dirs |-> r.dirs, made |-> r.err, raised |-> r.err, log |-> <<>>]

\* validate_path that only looks whether the directory is there.
ValidatePathNoCreate(d, path) ==
    [dirs |-> d, made |-> "none", raised |-> "none", log |-> <<>>]

\* validate_path: the tree afterwards, what is printed, and the exception
\* that leaves the method ("none" when it returns).
ValidatePath(d, path) ==
    LET r == MakeDirs(d, Segs(path))
    IN  IF r.err \in {"FileNotFoundError", "PermissionError"}
        THEN [dirs |-> r.dirs, made |-> r.err, raised |-> "none",
              log |-> <<"Error occurred while creating the directory:">>]
        ELSE [dirs |-> r.dirs, made |-> r.err, raised |-> r.err, log |-> <<>>]

\* validate_format that reports the unsupported format and keeps it.
ValidateFormatKeep(fmt) ==
    IF fmt \notin SUPPORTED_FORMATS
    THEN [file_format |-> fmt,
          log |-> <<"Audio file format is not supported. Accepted formats: WAV, MP3, and FLAC.",
                    "Using default value: WAV">>]
    ELSE [file_format |-> fmt, log |-> <<>>]

\* validate_format whose default is spelt in upper case.
ValidateFormatUpper(fmt) ==
    IF fmt \notin SUPPORTED_FORMATS
    THEN [file_format |-> <<"W", "A", "V">>,
          log |-> <<"Audio file format is not supported. Accepted formats: WAV, MP3, and FLAC.",
                    "Using default value: WAV">>]
    ELSE [file_format |-> fmt, log |-> <<>>]

\* validate_format: the format afterwards and what is printed.
ValidateFormat(fmt) ==
    IF fmt \notin SUPPORTED_FORMATS
    THEN [file_format |-> DEFAULT_FORMAT,
          log |-> <<"Audio file format is not supported. Accepted formats: WAV, MP3, and FLAC.",
                    "Using default value: WAV">>]
    ELSE [file_format |-> fmt, log |-> <<>>]

\* A constructor that replaces a non-positive duration by the default.
InitDurationClamped(d) == IF d < 1 THEN 5 ELSE d

\* self.duration = duration
InitDuration(d) == d

\* A constructor that stores the format as given.
InitFormatRaw(f) == f

\* self.file_format = file_format.lower()
InitFormat(f) == Lower(f)

\* VoiceRecorder(duration, output_path, file_format)
Construct ==
    /\ pc = "new"
    /\ LET vp == ValidatePath(dirs, args.output_path)
           vf == ValidateFormat(InitFormat(args.file_format))
       IN  /\ duration' = InitDuration(args.duration)
           /\ output_path' = args.output_path
           /\ dirs' = vp.dirs
           /\ dirErr' = vp.made
           /\ ctorErr' = vp.raised
           /\ IF vp.raised # "none"
              THEN /\ pc' = "ctor_raised"
                   /\ file_format' = InitFormat(args.file_format)
                   /\ log' = log \o vp.log
              ELSE /\ pc' = "idle"
                   /\ file_format' = vf.file_format
                   /\ log' = log \o vp.log \o vf.log
    /\ UNCHANGED <<args, files, clock, calls, callTime, captureDone, request,
                   recording, encoded, recCalls, writeCalls, ret, raised,
                   primErr, raisedAt, filesAtCall>>

-----------------------------------------------------------------------------
(* start_record, one step per call it makes. *)

\* The frame count without the sample rate.
FramesSeconds(d) == d

\* int(self.duration * self.SAMPLE_RATE): int() truncates towards zero and
\* the product of two integers is an integer.
Frames(d) == d * SAMPLE_RATE

\* The arguments of sd.rec.
RecRequest(d) ==
    [frames |-> Frames(d), samplerate |-> SAMPLE_RATE, channels |-> CHANNELS]

\* The arguments of sf.write besides the path.
WriteRequest(rec) == [data |-> rec, samplerate |-> SAMPLE_RATE]

\* The file name alone, without the output directory.
JoinPathNoDir(dir, stamp, fmt) == [prefix |-> <<>>, stamp |-> stamp, ext |-> fmt]

\* os.path.join(self.output_path, f"{int(time.time())}.{self.file_format}"):
\* the text is prefix, then the decimal stamp, then ".", then ext.
JoinPath(dir, stamp, fmt) ==
    [prefix |-> IF dir = <<>> THEN <<>>
                ELSE IF Last(dir) = "/" THEN dir
                ELSE dir \o <<"/">>,
     stamp |-> stamp,
     ext |-> fmt]

\* A start_record that wraps what its primitives raise.
PropagateWrapped(e) == "RuntimeError"

\* An exception raised inside start_record reaches the caller as it is:
\* the method has no try statement.
Propagate(e) == e

\* The file a path names: its directory and its name.
FileKey(p) == [dir |-> Segs(p.prefix), stamp |-> p.stamp, ext |-> p.ext]

\* Whether the file can be opened for writing at all.
Writable(d, p) ==
    /\ WalkErr(d, Segs(p.prefix) \o <<"x">>) = "none"
    /\ NodeKind(d, Segs(p.prefix)) = "dir"

\* A writer that leaves a scratch file next to the one it writes.
WrittenWithScratch(fl, k, req, whole) ==
    {f \in fl : f.key # k}
      \cup {[key |-> k, frames |-> req.data.frames, channels |-> req.data.channels,
             samplerate |-> req.samplerate, complete |-> whole],
            [key |-> [dir |-> k.dir, stamp |-> k.stamp, ext |-> <<"t", "m", "p">>],
             frames |-> 0, channels |-> req.data.channels,
             samplerate |-> req.samplerate, complete |-> FALSE]}

\* The files after sf.write has written file k.
Written(fl, k, req, whole) ==
    {f \in fl : f.key # k}
      \cup {[key |-> k, frames |-> req.data.frames, channels |-> req.data.channels,
             samplerate |-> req.samplerate, complete |-> whole]}

CaptureErrors == {"PortAudioError"}
WriteErrors == {"LibsndfileError"}

Raise(e, at) ==
    /\ pc' = "raised"
    /\ primErr' = e
    /\ raised' = Propagate(e)
    /\ raisedAt' = at
    /\ ret' = {}

\* The caller invokes recorder.start_record(); print("Recording...").
StartRecord ==
    /\ pc \in {"idle", "returned", "raised"}
    /\ calls < MaxCalls
    /\ pc' = "rec"
    /\ calls' = calls + 1
    /\ callTime' = clock
    /\ captureDone' = 0
    /\ filesAtCall' = files
    /\ log' = log \o <<"Recording...">>
    /\ request' = {}
    /\ recording' = {}
    /\ encoded' = {}
    /\ recCalls' = 0
    /\ writeCalls' = 0
    /\ ret' = {}
    /\ raised' = "none"
    /\ primErr' = "none"
    /\ raisedAt' = "none"
    /\ UNCHANGED <<args, duration, output_path, file_format, dirs, files, clock,
                   ctorErr, dirErr>>

\* recording = sd.rec(frames, samplerate=..., channels=1)
Rec ==
    /\ pc = "rec"
    /\ LET req == RecRequest(duration)
       IN  /\ request' = {req}
           /\ recCalls' = recCalls + 1
           /\ \/ /\ req.frames < 0
                 /\ Raise("ValueError", "rec")
                 /\ UNCHANGED recording
              \/ /\ req.frames >= 0
                 /\ \E e \in CaptureErrors : Raise(e, "rec")
                 /\ UNCHANGED recording
              \/ /\ req.frames >= 0
                 /\ recording' = {[frames |-> req.frames, channels |-> req.channels]}
                 /\ pc' = "wait"
                 /\ UNCHANGED <<ret, raised, primErr, raisedAt>>
    /\ UNCHANGED <<args, duration, output_path, file_format, dirs, files, log,
                   clock, ctorErr, dirErr, calls, callTime, captureDone, encoded,
                   writeCalls, filesAtCall>>

\* sd.wait(): returns once the frames have been captured, which takes the
\* duration of the recording.
Wait ==
    /\ pc = "wait"
    /\ clock + duration <= MaxClock
    /\ clock' = clock + duration
    /\ captureDone' = clock'
    /\ \/ /\ pc' = "write"
          /\ UNCHANGED <<ret, raised, primErr, raisedAt>>
       \/ \E e \in CaptureErrors : Raise(e, "wait")
    /\ UNCHANGED <<args, duration, output_path, file_format, dirs, files, log,
                   ctorErr, dirErr, calls, callTime, request, recording, encoded,
                   recCalls, writeCalls, filesAtCall>>

\* output_path = os.path.join(...); sf.write(output_path, recording,
\* SAMPLE_RATE); return output_path
Write ==
    /\ pc = "write"
    /\ LET p   == JoinPath(output_path, clock, file_format)
           buf == CHOOSE b \in recording : TRUE
           req == WriteRequest(buf)
       IN  /\ encoded' = {req}
           /\ writeCalls' = writeCalls + 1
           /\ \/ /\ Writable(dirs, p)
                 /\ files' = Written(files, FileKey(p), req, TRUE)
                 /\ pc' = "returned"
                 /\ ret' = {p}
                 /\ UNCHANGED <<raised, primErr, raisedAt>>
              \/ /\ Writable(dirs, p)
                 /\ \E e \in WriteErrors : Raise(e, "write")
                 /\ \/ files' = files
                    \/ files' = Written(files, FileKey(p), req, FALSE)
              \/ /\ ~Writable(dirs, p)
                 /\ \E e \in WriteErrors : Raise(e, "write")
                 /\ files' = files
    /\ UNCHANGED <<args, duration, output_path, file_format, dirs, log, clock,
                   ctorErr, dirErr, calls, callTime, captureDone, request,
                   recording, recCalls, filesAtCall>>

\* Time passes.
Tick ==
    /\ clock < MaxClock
    /\ clock' = clock + 1
    /\ UNCHANGED <<args, pc, duration, output_path, file_format, dirs, files, log,
                   ctorErr, dirErr, calls, callTime, captureDone, request,
                   recording, encoded, recCalls, writeCalls, ret, raised, primErr,
                   raisedAt, filesAtCall>>

-----------------------------------------------------------------------------
(* The arguments and the environment the program starts in. *)

Durations == {-1, 0, 1, 2}

Formats ==
    {wav, mp3, flac,
     <<"W", "A", "V">>, <<"M", "P", "3">>, <<"F", "l", "a", "c">>,
     <<"w", "a", "v", "f">>, <<"O", "G", "G">>, <<"w", "a">>, <<>>}

OutputPaths ==
    {<<>>,
     <<"e">>, <<"e", "/">>,
     <<"n">>, <<"n", "/">>, <<"n", "/", "m">>, <<"e", "/", "n", "/">>,
     <<"f">>, <<"f", "/", "x">>,
     <<"r">>, <<"r", "/", "x">>,
     <<"l", "/", "x">>}

InitialDirs ==
    (<<>> :> "dir") @@ (<<"e">> :> "dir") @@ (<<"f">> :> "file")
      @@ (<<"r">> :> "rodir") @@ (<<"l">> :> "dangling")

Init ==
    /\ args \in [duration : Durations, output_path : OutputPaths,
                 file_format : Formats]
    /\ pc = "new"
    /\ duration = 0
    /\ output_path = <<>>
    /\ file_format = <<>>
    /\ dirs = InitialDirs
    /\ files = {}
    /\ log = <<>>
    /\ clock = 0
    /\ ctorErr = "none"
    /\ dirErr = "none"
    /\ calls = 0
    /\ callTime = 0
    /\ captureDone = 0
    /\ request = {}
    /\ recording = {}
    /\ encoded = {}
    /\ recCalls = 0
    /\ writeCalls = 0
    /\ ret = {}
    /\ raised = "none"
    /\ primErr = "none"
    /\ raisedAt = "none"
    /\ filesAtCall = {}

Next == Construct \/ StartRecord \/ Rec \/ Wait \/ Write \/ Tick

Spec == Init /\ [][Next]_vars

-----------------------------------------------------------------------------
(* Vocabulary of the properties. *)

Constructed == pc \notin {"new", "ctor_raised"}

Finished == pc \in {"returned", "raised"}

InRecord == pc \in {"rec", "wait", "write"}

Printed(msg) == \E i \in 1..Len(log) : log[i] = msg

SubstitutionMsg == "Using default value: WAV"

DirErrorMsg == "Error occurred while creating the directory:"

ArgSegs == Segs(args.output_path)

\* Every missing segment of the path can be made: the path runs through
\* directories up to a writable one, and nothing stands where the rest goes.
Creatable(d, segs) ==
    /\ segs # <<>>
    /\ \E k \in 0..(Len(segs) - 1) :
          /\ \A j \in 0..(k - 1) : IsDir(d, Prefix(segs, j))
          /\ NodeKind(d, Prefix(segs, k)) = "dir"
          /\ \A j \in (k + 1)..Len(segs) : Prefix(segs, j) \notin DOMAIN d

\* os.path.isdir: the empty path names nothing.
PathIsDir(d, path) == path # <<>> /\ IsDir(d, Segs(path))

\* Nothing is found at the output path before construction.
MissingAtStart == args.output_path = <<>> \/ ~Exists(InitialDirs, ArgSegs)

-----------------------------------------------------------------------------
(* C1: an unsupported format never makes construction fail: whenever       *)
(* __init__ raises, the exception is the one directory creation raised,    *)
(* and a Recorder built from a format whose lower-cased form is not wav,   *)
(* mp3 or flac has the format wav, the substitution having been printed.   *)
C1_UnsupportedFormatYieldsDefault ==
    /\ (Constructed /\ Lower(args.file_format) \notin {wav, mp3, flac})
          => /\ file_format = wav
             /\ Printed(SubstitutionMsg)
    /\ pc = "ctor_raised"
          => /\ ctorErr = dirErr
             /\ dirErr \in {"FileExistsError", "NotADirectoryError"}
    /\ (pc # "new" /\ dirErr \notin {"FileExistsError", "NotADirectoryError"})
          => Constructed

C1_Witness ==
    /\ pc = "idle"
    /\ args.file_format = <<"w", "a", "v", "f">>
    /\ file_format = wav
    /\ Printed(SubstitutionMsg)

C3_SupportedFormatKept ==
    (pc # "new" /\ Lower(args.file_format) \in {wav, mp3, flac})
       => /\ file_format = Lower(args.file_format)
          /\ ~Printed(SubstitutionMsg)
          /\ args.file_format \in {wav, mp3, flac} => file_format = args.file_format

C3_Witness ==
    /\ pc = "idle"
    /\ args.file_format = <<"M", "P", "3">>
    /\ file_format = mp3

(* C4: the returned path is the output directory, one separator, the time  *)
(* stamp, a dot and the validated format; the stamp is the clock read      *)
(* after the capture has finished, so not before the call.                 *)
C4_ReturnedPath ==
    \A p \in ret :
       /\ p.prefix \in {output_path, output_path \o <<"/">>}
       /\ p.prefix # <<>> => Last(p.prefix) = "/"
       /\ Segs(p.prefix) = Segs(output_path)
       /\ p.ext = file_format
       /\ p.ext = IF Lower(args.file_format) \in {wav, mp3, flac}
                  THEN Lower(args.file_format) ELSE wav
       /\ callTime <= captureDone
       /\ captureDone <= p.stamp
       /\ p.stamp <= clock

C4_Witness ==
    /\ pc = "returned"
    /\ args.output_path = <<"n", "/", "m">>
    /\ args.file_format = <<"O", "G", "G">>
    /\ \E p \in ret : /\ p.prefix = <<"n", "/", "m", "/">>
                      /\ p.ext = wav
                      /\ p.stamp > callTime

(* C5: an invocation that returns has called the writer once and has       *)
(* created or replaced one file, the complete one at the returned path in  *)
(* the output directory, leaving every other file alone; until the capture *)
(* has completed and the writer runs, the files are those of call time.    *)
C5_OneFilePerInvocation ==
    /\ pc = "returned"
          => /\ writeCalls = 1
             /\ Cardinality(ret) = 1
             /\ \A p \in ret :
                   /\ FileKey(p).dir = Segs(output_path)
                   /\ \E f \in files :
                         /\ f.key = FileKey(p)
                         /\ f.complete
                         /\ files \ {f} = {g \in filesAtCall : g.key # FileKey(p)}
    /\ InRecord => (files = filesAtCall /\ writeCalls = 0)

C5_Witness ==
    /\ pc = "returned"
    /\ calls = 2
    /\ Cardinality(files) = 2
    /\ Cardinality(filesAtCall) = 1

C7_ErrorsPropagate ==
    pc = "raised"
       => /\ primErr # "none"
          /\ raised = primErr
          /\ ret = {}
          /\ recCalls = 1
          /\ writeCalls <= 1
          /\ raisedAt \in {"rec", "wait"}
                => (writeCalls = 0 /\ encoded = {} /\ files = filesAtCall)
          /\ raisedAt = "write" => writeCalls = 1

C7_Witness ==
    /\ pc = "raised"
    /\ raisedAt = "wait"
    /\ raised = "PortAudioError"
    /\ calls = 2
    /\ filesAtCall # {}

(* C8: the capture is asked for duration x 44100 frames on one channel at  *)
(* 44100 Hz, the writer is handed the buffer the capture returned together *)
(* with 44100, and the file written holds duration x 44100 frames on one   *)
(* channel.                                                                *)
C8_FrameCount ==
    /\ \A r \in request :
          /\ r.frames = duration * 44100
          /\ r.channels = 1
          /\ r.samplerate = 44100
    /\ \A b \in recording : b.frames = duration * 44100 /\ b.channels = 1
    /\ \A e \in encoded : e.data \in recording /\ e.samplerate = 44100
    /\ \A p \in ret : \A f \in files :
          f.key = FileKey(p)
             => /\ f.frames = duration * 44100
                /\ f.channels = 1
                /\ f.samplerate = 44100
    /\ InRecord \/ Finished => Cardinality(request) = recCalls

C8_Witness ==
    /\ pc = "returned"
    /\ duration = 2
    /\ \E p \in ret : \E f \in files :
          f.key = FileKey(p) /\ f.frames = 88200 /\ f.channels = 1

(* C9: once construct has returned the format is wav, mp3 or flac in every *)
(* state, and no step changes the format, the duration or the output       *)
(* directory.                                                              *)
C9_FormatInvariant ==
    /\ [](Constructed => file_format \in {wav, mp3, flac})
    /\ [][Constructed => /\ file_format' = file_format
                         /\ duration' = duration
                         /\ output_path' = output_path]_vars

C9_Witness ==
    /\ pc = "raised"
    /\ calls = 2
    /\ args.file_format = <<"O", "G", "G">>
    /\ file_format = wav
    /\ files # {}

(* C10 as stated: every constructed Recorder has a positive duration.      *)
C10_Original == Constructed => duration > 0

(* C10 as amended: construction checks the output directory and the format *)
(* only; the duration is stored as it was given, zero and negative values  *)
(* included, and nothing is printed about it.                              *)
C10_DurationStoredAsGiven ==
    pc # "new"
       => /\ duration = args.duration
          /\ \A i \in 1..Len(log) :
                log[i] \in {DirErrorMsg, SubstitutionMsg, "Recording...",
                            "Audio file format is not supported. Accepted formats: WAV, MP3, and FLAC."}
          /\ (pc = "ctor_raised") <=> (dirErr \in {"FileExistsError", "NotADirectoryError"})

C10_Witness ==
    /\ pc = "idle"
    /\ args.duration = -1
    /\ duration = -1

=============================================================================
